---- MODULE Spec2Model ----
(***************************************************************************)
(* Dream-to-Story (src/app.py): the two helper functions analyze_mood and  *)
(* generate_story_and_moral, the reply parser inside the latter, and the   *)
(* Streamlit script run (form submit, example buttons, autofill rerun,     *)
(* local save).                                                            *)
(*                                                                         *)
(* Text is a sequence of one-character strings, so that strip, upper,      *)
(* find, slicing and splitlines are computed character by character.       *)
(***************************************************************************)
EXTENDS Integers, Sequences, FiniteSets, TLC

VARIABLES
    content,      \* SpecParse: resp.choices[0].message.content, the raw reply
    parsed,       \* SpecParse: the (story, moral) pair returned for it
    fnArgs,       \* SpecFn: client handle, dream_text, genre, length of a call
    fnOut,        \* SpecFn: what the call returned or raised, and its requests
    client,       \* Spec: TRUE iff OPENAI_API_KEY was set (client is not None)
    session,      \* Spec: st.session_state, a record of the keys that are set
    dream_input,  \* Spec: the text area's value
    genre,        \* Spec: the genre selectbox
    length,       \* Spec: the length selectbox
    run,          \* Spec: the events of the latest script run, in order
    shown,        \* Spec: what the latest script run rendered
    files,        \* Spec: stories/<name> -> content, for the files that exist
    dirExists,    \* Spec: whether the directory stories/ exists
    saved         \* Spec: dream text -> its latest submission's save

parseVars == <<content, parsed>>
fnVars == <<fnArgs, fnOut>>
appVars == <<client, session, dream_input, genre, length, run, shown, files,
             dirExists, saved>>
vars == <<content, parsed, fnArgs, fnOut, client, session, dream_input, genre,
          length, run, shown, files, dirExists, saved>>

\* Bound: the number of tokens a modelled reply is made of.
MaxTokens == 4

-----------------------------------------------------------------------------
(* Text primitives                                                         *)

STORY == <<"S", "T", "O", "R", "Y", ":">>
MORAL == <<"M", "O", "R", "A", "L", ":">>

LowerLetters == <<"a", "b", "l", "m", "o", "r", "s", "t", "y">>
UpperLetters == <<"A", "B", "L", "M", "O", "R", "S", "T", "Y">>

IsLower(c) == \E i \in 1..Len(LowerLetters) : LowerLetters[i] = c

UpperChar_AsIs(c) == <<c>>

\* str.upper() on one character: a cased letter maps to its capital, the
\* sharp s has no single capital and maps to the two characters "SS".
UpperChar(c) ==
    IF IsLower(c)
    THEN <<UpperLetters[CHOOSE i \in 1..Len(LowerLetters) : LowerLetters[i] = c]>>
    ELSE IF c = "ß" THEN <<"S", "S">>
    ELSE <<c>>

RECURSIVE UpperFrom(_, _)
UpperFrom(s, i) ==
    IF i > Len(s) THEN <<>> ELSE UpperChar(s[i]) \o UpperFrom(s, i + 1)

\* str.upper()
Upper(s) == UpperFrom(s, 1)

IsSpace(c) == c \in {" ", "\n"}

RECURSIVE LStrip(_)
LStrip(s) == IF s # <<>> /\ IsSpace(Head(s)) THEN LStrip(Tail(s)) ELSE s

RECURSIVE RStrip(_)
RStrip(s) ==
    IF s # <<>> /\ IsSpace(s[Len(s)]) THEN RStrip(SubSeq(s, 1, Len(s) - 1)) ELSE s

\* str.strip()
Strip(s) == RStrip(LStrip(s))

\* Whether pat occurs in s at the 0-based offset i.
OccursAt(s, pat, i) ==
    /\ i + Len(pat) <= Len(s)
    /\ \A k \in 1..Len(pat) : s[i + k] = pat[k]

\* str.find(pat): the lowest 0-based offset of pat in s, or -1.
RECURSIVE FindFrom(_, _, _)
FindFrom(s, pat, i) ==
    IF i + Len(pat) > Len(s) THEN -1
    ELSE IF OccursAt(s, pat, i) THEN i
    ELSE FindFrom(s, pat, i + 1)

Find(s, pat) == FindFrom(s, pat, 0)

\* pat in s
Contains(s, pat) == Find(s, pat) # -1

Min(a, b) == IF a < b THEN a ELSE b

\* s[a:b] for 0 <= a, 0 <= b: both ends are clamped to len(s), and the slice
\* is empty when a >= b.
Slice(s, a, b) ==
    LET hi == Min(b, Len(s))
    IN  IF a >= hi THEN <<>> ELSE SubSeq(s, a + 1, hi)

\* s[a:]
SliceFrom(s, a) == Slice(s, a, Len(s))

\* str.splitlines(): the pieces between line breaks, no empty last piece.
RECURSIVE SplitLines(_)
SplitLines(s) ==
    IF s = <<>> THEN <<>>
    ELSE LET nl == Find(s, <<"\n">>)
         IN  IF nl = -1 THEN <<s>>
             ELSE <<Slice(s, 0, nl)>> \o SplitLines(SliceFrom(s, nl + 1))

\* [ln.strip() for ln in text.splitlines() if ln.strip()]
RECURSIVE StrippedNonEmpty(_)
StrippedNonEmpty(ls) ==
    IF ls = <<>> THEN <<>>
    ELSE IF Strip(Head(ls)) # <<>>
         THEN <<Strip(Head(ls))>> \o StrippedNonEmpty(Tail(ls))
         ELSE StrippedNonEmpty(Tail(ls))

\* "\n".join(ls)
RECURSIVE JoinLines(_)
JoinLines(ls) ==
    IF ls = <<>> THEN <<>>
    ELSE IF Len(ls) = 1 THEN ls[1]
    ELSE ls[1] \o <<"\n">> \o JoinLines(Tail(ls))

-----------------------------------------------------------------------------
(* generate_story_and_moral: splitting the reply                           *)

Result(s, m) == [story |-> s, moral |-> m]

\* No pair was returned.
NoResult == [story |-> <<"?">>, moral |-> <<"?">>]

\* "STORY:" in text.upper() and "MORAL:" in text.upper()
HasMarkers(text) == Contains(Upper(text), STORY) /\ Contains(Upper(text), MORAL)

\* The labelled branch: the offsets are found in the upper-cased copy and
\* used to slice the original text.
MarkerSplit(text) ==
    LET up == Upper(text)
        s_idx == Find(up, STORY)
        m_idx == Find(up, MORAL)
    IN  Result(Strip(Slice(text, s_idx + Len(STORY), m_idx)),
               Strip(SliceFrom(text, m_idx + Len(MORAL))))

FallbackSplit_AnyLine(text) ==
    LET lines == StrippedNonEmpty(SplitLines(text))
    IN  IF Len(lines) >= 1
        THEN Result(JoinLines(SubSeq(lines, 1, Len(lines) - 1)), lines[Len(lines)])
        ELSE Result(text, <<>>)

\* The fallback branch: the last non-empty line is the moral.
FallbackSplit(text) ==
    LET lines == StrippedNonEmpty(SplitLines(text))
    IN  IF Len(lines) >= 2
        THEN Result(JoinLines(SubSeq(lines, 1, Len(lines) - 1)), lines[Len(lines)])
        ELSE Result(text, <<>>)

\* From the reply's content to the returned pair.
ParseReply(reply) ==
    LET text == Strip(reply)
    IN  IF HasMarkers(text) THEN MarkerSplit(text) ELSE FallbackSplit(text)

-----------------------------------------------------------------------------
(* The completion service and the two helper functions                     *)

\* What client.chat.completions.create(...) and the read of
\* resp.choices[0].message.content can do: give a text, raise (the service
\* or the network failed), or give no content (None, whose .strip() raises).
Reply(c) == [kind |-> "reply", content |-> c]
ServiceError == [kind |-> "error", content |-> <<>>]
NoContent == [kind |-> "none", content |-> <<>>]

Returned(v, reqs) == [ret |-> v, raised |-> FALSE, requests |-> reqs]
Raised(reqs) == [ret |-> <<>>, raised |-> TRUE, requests |-> reqs]

MoodMaxTokens == 30
StoryMaxTokens == 550

NoKeyMood == <<"Unknown (no API key)">>
NoKeyStory == <<"(API key missing)">>

MoodRequest(dream_text) ==
    [model |-> "gpt-4o-mini", system |-> "mood classifier",
     user |-> [dream |-> dream_text, genre |-> "", hint |-> ""],
     temperature |-> "0.0", max_tokens |-> MoodMaxTokens]

\* analyze_mood(dream_text), with the client handle and the service's
\* answer made explicit.
AnalyzeMood(hasClient, dream_text, outcome) ==
    IF ~hasClient THEN Returned(NoKeyMood, <<>>)
    ELSE IF outcome.kind = "reply"
         THEN Returned(Strip(outcome.content), <<MoodRequest(dream_text)>>)
         ELSE Raised(<<MoodRequest(dream_text)>>)

LengthHint_ShortDefault(len) ==
    CASE len = "Medium" -> "Make it medium length (5-8 sentences)."
      [] len = "Long" -> "Make it longer (8-12 sentences)."
      [] OTHER -> "Keep it very short (3-5 sentences)."

\* The length_hint dictionary and its .get default.
LengthHint(len) ==
    CASE len = "Short" -> "Keep it very short (3-5 sentences)."
      [] len = "Medium" -> "Make it medium length (5-8 sentences)."
      [] len = "Long" -> "Make it longer (8-12 sentences)."
      [] OTHER -> "Keep it short."

StoryRequest(dream_text, g, len) ==
    [model |-> "gpt-4o-mini", system |-> "creative writer",
     user |-> [dream |-> dream_text, genre |-> g, hint |-> LengthHint(len)],
     temperature |-> "0.7", max_tokens |-> StoryMaxTokens]

GenerateStoryAndMoral_Unguarded(hasClient, dream_text, g, len, outcome) ==
    IF outcome.kind = "reply"
    THEN Returned(ParseReply(outcome.content), <<StoryRequest(dream_text, g, len)>>)
    ELSE Raised(<<StoryRequest(dream_text, g, len)>>)

\* generate_story_and_moral(dream_text, genre, length)
GenerateStoryAndMoral(hasClient, dream_text, g, len, outcome) ==
    IF ~hasClient THEN Returned(Result(NoKeyStory, <<>>), <<>>)
    ELSE IF outcome.kind = "reply"
         THEN Returned(ParseReply(outcome.content),
                       <<StoryRequest(dream_text, g, len)>>)
         ELSE Raised(<<StoryRequest(dream_text, g, len)>>)

-----------------------------------------------------------------------------
(* SpecParse: the reply parser applied to every reply of up to MaxTokens   *)
(* tokens                                                                  *)

\* What a reply is built from: the two markers in several casings, two
\* letters, a blank, a line break and a letter whose capital is two letters.
Tokens ==
    { STORY, <<"s", "t", "o", "r", "y", ":">>,
      MORAL, <<"M", "o", "r", "a", "l", ":">>,
      <<"a">>, <<"b">>, <<" ">>, <<"\n">>, <<"ß">> }

TokenSeqs == UNION { [1..n -> Tokens] : n \in 0..MaxTokens }

RECURSIVE Flatten(_)
Flatten(ts) == IF ts = <<>> THEN <<>> ELSE Head(ts) \o Flatten(Tail(ts))

Replies == { Flatten(ts) : ts \in TokenSeqs }

AppIdle ==
    /\ client = FALSE
    /\ session = <<>>
    /\ dream_input = <<>>
    /\ genre = "Fantasy"
    /\ length = "Medium"
    /\ run = <<>>
    /\ shown = <<>>
    /\ files = <<>>
    /\ dirExists = FALSE
    /\ saved = <<>>

FnIdle ==
    /\ fnArgs = <<>>
    /\ fnOut = <<>>

ParseIdle ==
    /\ content = <<>>
    /\ parsed = NoResult

InitParse ==
    /\ content \in Replies
    /\ parsed = NoResult
    /\ FnIdle
    /\ AppIdle

\* text = resp.choices[0].message.content.strip() ... return story, moral
Parse ==
    /\ parsed = NoResult
    /\ parsed' = ParseReply(content)
    /\ UNCHANGED <<content, fnVars, appVars>>

NextParse == Parse

SpecParse == InitParse /\ [][NextParse]_vars

-----------------------------------------------------------------------------
(* SpecFn: one call of analyze_mood or generate_story_and_moral            *)

\* Dream texts: empty, a blank, and two texts that differ by a leading blank.
Dreams == { <<>>, <<" ">>, <<"a">>, <<" ", "a">> }

Genres == {"Fantasy", "Mystery", "Drama", "Comedy", "Surreal", "Horror"}
Lengths == {"Short", "Medium", "Long"}

\* A length argument that is none of the three tiers.
OtherLengths == {"Epic"}

MoodOutcomes == { Reply(<<" ", "S", "a", "d", "\n">>), ServiceError, NoContent }

MarkedReply ==
    Flatten(<<STORY, <<" ">>, <<"a">>, <<" ">>, MORAL, <<" ">>, <<"b">>, <<"\n">>>>)
PlainReply == <<"a">>

StoryOutcomes == { Reply(MarkedReply), Reply(PlainReply), ServiceError, NoContent }

NotCalled == [fn |-> "", outcome |-> ServiceError, ret |-> <<>>, raised |-> FALSE,
              requests |-> <<>>]

InitFn ==
    /\ fnArgs \in [client : BOOLEAN, dream_text : Dreams, genre : Genres,
                   length : Lengths \cup OtherLengths]
    /\ fnOut = NotCalled
    /\ ParseIdle
    /\ AppIdle

CallAnalyzeMood ==
    /\ fnOut = NotCalled
    /\ \E o \in MoodOutcomes :
         LET r == AnalyzeMood(fnArgs.client, fnArgs.dream_text, o)
         IN  fnOut' = [fn |-> "analyze_mood", outcome |-> o, ret |-> r.ret,
                       raised |-> r.raised, requests |-> r.requests]
    /\ UNCHANGED <<fnArgs, parseVars, appVars>>

CallGenerate ==
    /\ fnOut = NotCalled
    /\ \E o \in StoryOutcomes :
         LET r == GenerateStoryAndMoral(fnArgs.client, fnArgs.dream_text,
                                        fnArgs.genre, fnArgs.length, o)
         IN  fnOut' = [fn |-> "generate_story_and_moral", outcome |-> o,
                       ret |-> r.ret, raised |-> r.raised,
                       requests |-> r.requests]
    /\ UNCHANGED <<fnArgs, parseVars, appVars>>

NextFn == CallAnalyzeMood \/ CallGenerate

SpecFn == InitFn /\ [][NextFn]_vars

-----------------------------------------------------------------------------
(* Spec: the Streamlit script, one action per script run                   *)

Examples ==
    << <<"I was flying over snow-capped mountains and suddenly the sky turned purple.">>,
       <<"I wandered through an endless city with unfamiliar streets and shops that changed each time I looked away.">>,
       <<"I arrived at an exam hall and realized I didn't study the subject at all. Everyone was watching me.">> >>

\* The (genre, length) pairs the modelled user selects in the form.
FormSelections == { <<"Fantasy", "Medium">>, <<"Horror", "Short">> }

\* Without a client handle no request is made, and the service has no say.
OutcomesFor(hasClient, outcomes) == IF hasClient THEN outcomes ELSE {NoContent}

\* What os.makedirs / open / f.write do in a submission.
SaveOutcomes == {"ok", "makedirs fails", "open fails", "write fails"}

\* The check that guards st.experimental_rerun().
HasAutofill(ss) == " __autofill" \in DOMAIN ss \/ "__autofill" \in DOMAIN ss

IsBlank_EmptyOnly(d) == d = <<>>

\* not dream_input.strip()
IsBlank(d) == Strip(d) = <<>>

\* hashlib.sha1(dream_input.encode("utf-8")).hexdigest()[:8]
Sha1Hex8(d) ==
    CASE d = <<"a">> -> "86f7e437"
      [] d = <<" ", "a">> -> "05186dbc"
      [] d = <<" ">> -> "b858cb28"
      [] d = <<>> -> "da39a3ee"

FileName_Stripped(d) == <<"stories/dream_", Sha1Hex8(Strip(d)), ".txt">>

\* fname = f"stories/dream_{h}.txt"
FileName(d) == <<"stories/dream_", Sha1Hex8(d), ".txt">>

\* full_text
FullText(d, mood, story, moral) ==
    <<"Dream:\n", d, "\n\nMood: ", mood, "\n\nStory:\n", story,
      "\n\nMoral:\n", moral, "\n">>

\* st.write(moral if moral else "(No explicit moral generated.)")
MoralShown(moral) ==
    IF moral # <<>> THEN moral ELSE <<"(No explicit moral generated.)">>

NothingShown == [mood |-> <<>>, story |-> <<>>, moral |-> <<>>, download |-> <<>>]

\* A file that was opened for writing and not written completely.
Truncated == <<>>

\* Lines 25-34 and 127-129: the warning of a missing key, then the title.
PageTop(hasClient) ==
    IF hasClient THEN <<"title">>
    ELSE <<"warning: OPENAI_API_KEY not found", "title">>

\* Lines 174-187 and 196-197 are rendered by every run that is not cut short.
PageFoot(ss) ==
    IF HasAutofill(ss) THEN <<"tips", "examples", "rerun">>
    ELSE <<"tips", "examples", "caption">>

RequestEvents(r) == [i \in 1..Len(r.requests) |-> "request"]

Computed_StoryFirst(hasClient, d, g, len, mo, so) ==
    LET m == AnalyzeMood(hasClient, d, mo)
        st == GenerateStoryAndMoral(hasClient, d, g, len, so)
    IN  IF st.raised
        THEN [ok |-> FALSE, mood |-> <<>>, result |-> NoResult,
              events |-> <<"generate_story_and_moral">> \o RequestEvents(st)
                         \o <<"exception in generate_story_and_moral">>]
        ELSE IF m.raised
        THEN [ok |-> FALSE, mood |-> <<>>, result |-> NoResult,
              events |-> <<"generate_story_and_moral">> \o RequestEvents(st)
                         \o <<"analyze_mood">> \o RequestEvents(m)
                         \o <<"exception in analyze_mood">>]
        ELSE [ok |-> TRUE, mood |-> m.ret, result |-> st.ret,
              events |-> <<"generate_story_and_moral">> \o RequestEvents(st)
                         \o <<"analyze_mood">> \o RequestEvents(m)]

\* The spinner block: analyze_mood, then generate_story_and_moral. An
\* exception of either ends the script run.
Computed(hasClient, d, g, len, mo, so) ==
    LET m == AnalyzeMood(hasClient, d, mo)
        st == GenerateStoryAndMoral(hasClient, d, g, len, so)
    IN  IF m.raised
        THEN [ok |-> FALSE, mood |-> <<>>, result |-> NoResult,
              events |-> <<"analyze_mood">> \o RequestEvents(m)
                         \o <<"exception in analyze_mood">>]
        ELSE IF st.raised
        THEN [ok |-> FALSE, mood |-> m.ret, result |-> NoResult,
              events |-> <<"analyze_mood">> \o RequestEvents(m)
                         \o <<"generate_story_and_moral">> \o RequestEvents(st)
                         \o <<"exception in generate_story_and_moral">>]
        ELSE [ok |-> TRUE, mood |-> m.ret, result |-> st.ret,
              events |-> <<"analyze_mood">> \o RequestEvents(m)
                         \o <<"generate_story_and_moral">> \o RequestEvents(st)]

\* Computed over the submissions of the model, evaluated once.
SpinnerBlock ==
    [hasClient \in BOOLEAN, d \in Dreams, sel \in FormSelections,
     mo \in MoodOutcomes, so \in StoryOutcomes |->
        Computed(hasClient, d, sel[1], sel[2], mo, so)]

SaveLocally_Uncaught(fs, dir, d, text, outcome) ==
    CASE outcome = "ok" ->
            [files |-> (FileName(d) :> text) @@ fs, dirExists |-> TRUE, ok |-> TRUE,
             events |-> <<"makedirs", "open", "write", "info: saved">>]
      [] outcome = "makedirs fails" ->
            [files |-> fs, dirExists |-> dir, ok |-> FALSE,
             events |-> <<"makedirs", "exception in makedirs">>]
      [] outcome = "open fails" ->
            [files |-> fs, dirExists |-> TRUE, ok |-> FALSE,
             events |-> <<"makedirs", "open", "exception in open">>]
      [] outcome = "write fails" ->
            [files |-> (FileName(d) :> <<>>) @@ fs, dirExists |-> TRUE,
             ok |-> FALSE,
             events |-> <<"makedirs", "open", "write", "exception in write">>]

\* The try block: makedirs, open, write; any exception becomes a warning.
SaveLocally(fs, dir, d, text, outcome) ==
    CASE outcome = "ok" ->
            [files |-> (FileName(d) :> text) @@ fs, dirExists |-> TRUE, ok |-> TRUE,
             events |-> <<"makedirs", "open", "write", "info: saved">>]
      [] outcome = "makedirs fails" ->
            [files |-> fs, dirExists |-> dir, ok |-> FALSE,
             events |-> <<"makedirs", "warning: could not save">>]
      [] outcome = "open fails" ->
            [files |-> fs, dirExists |-> TRUE, ok |-> FALSE,
             events |-> <<"makedirs", "open", "warning: could not save">>]
      [] outcome = "write fails" ->
            [files |-> (FileName(d) :> Truncated) @@ fs, dirExists |-> TRUE,
             ok |-> FALSE,
             events |-> <<"makedirs", "open", "write", "warning: could not save">>]

\* Lines 149-160: the three sections and the download button.
DisplayEvents == <<"show mood", "show story", "show moral", "download_button">>

\* What is remembered of a dream text's submissions: whether the latest one
\* was saved, its full_text, the file names used so far, and whether the
\* latest save replaced a file that held something else.
NeverSaved == [ok |-> FALSE, text |-> <<>>, names |-> {}, overwrote |-> FALSE]

Replaces(fs, name, text) == name \in DOMAIN fs /\ fs[name] # text

Loaded(hasClient) ==
    [trigger |-> "load", events |-> PageTop(hasClient) \o PageFoot(<<>>),
     rerun |-> FALSE]

Init ==
    /\ client \in BOOLEAN
    /\ session = <<>>
    /\ dream_input = <<>>
    /\ genre = "Fantasy"
    /\ length = "Medium"
    /\ run = Loaded(client)
    /\ shown = NothingShown
    /\ files = <<>>
    /\ dirExists = FALSE
    /\ saved = [d \in Dreams |-> NeverSaved]
    /\ ParseIdle
    /\ FnIdle

\* The user fills the form and presses "Create Story": one script run with
\* submit = True. Either the dream is blank, or one of the two calls raises,
\* or the results are shown and saved.
Submit ==
    \E d \in Dreams, sel \in FormSelections :
        /\ dream_input' = d
        /\ genre' = sel[1]
        /\ length' = sel[2]
        /\ UNCHANGED <<client, session, parseVars, fnVars>>
        /\ \/ /\ IsBlank(d)
              /\ run' = [trigger |-> "submit",
                         events |-> PageTop(client) \o <<"warning: empty dream">>
                                    \o PageFoot(session),
                         rerun |-> HasAutofill(session)]
              /\ shown' = NothingShown
              /\ UNCHANGED <<files, dirExists, saved>>
           \/ /\ ~IsBlank(d)
              /\ \E mo \in OutcomesFor(client, MoodOutcomes),
                    so \in OutcomesFor(client, StoryOutcomes) :
                   LET c == SpinnerBlock[client, d, sel, mo, so]
                       text == FullText(d, c.mood, c.result.story, c.result.moral)
                   IN  \/ /\ ~c.ok
                          /\ run' = [trigger |-> "submit",
                                     events |-> PageTop(client) \o c.events,
                                     rerun |-> FALSE]
                          /\ shown' = NothingShown
                          /\ UNCHANGED <<files, dirExists, saved>>
                       \/ /\ c.ok
                          /\ \E sv \in SaveOutcomes :
                               LET w == SaveLocally(files, dirExists, d, text, sv)
                               IN  /\ sv = "makedirs fails" => ~dirExists
                                   /\ run' = [trigger |-> "submit",
                                              events |-> PageTop(client) \o c.events
                                                         \o DisplayEvents \o w.events
                                                         \o PageFoot(session),
                                              rerun |-> HasAutofill(session)]
                                   /\ files' = w.files
                                   /\ dirExists' = w.dirExists
                                   /\ saved' = [saved EXCEPT ![d] =
                                                  [ok |-> w.ok, text |-> text,
                                                   names |-> @.names
                                                             \cup {FileName(d)},
                                                   overwrote |->
                                                     w.ok /\ Replaces(files,
                                                              FileName(d), text)]]
                          /\ shown' = [mood |-> c.mood, story |-> c.result.story,
                                       moral |-> MoralShown(c.result.moral),
                                       download |-> text]

\* The user presses one of the three example buttons: one script run with
\* submit = False and that button True.
ClickExample ==
    \E i \in 1..Len(Examples) :
        /\ session' = [__autofill |-> Examples[i]]
        /\ run' = [trigger |-> "example",
                   events |-> PageTop(client) \o PageFoot(session'),
                   rerun |-> HasAutofill(session')]
        /\ shown' = NothingShown
        /\ UNCHANGED <<client, dream_input, genre, length, files, dirExists,
                       saved, parseVars, fnVars>>

\* st.experimental_rerun(): the script runs again with no button pressed.
Rerun ==
    /\ run.rerun
    /\ run' = [trigger |-> "rerun",
               events |-> PageTop(client) \o PageFoot(session),
               rerun |-> HasAutofill(session)]
    /\ shown' = NothingShown
    /\ UNCHANGED <<client, session, dream_input, genre, length, files,
                   dirExists, saved, parseVars, fnVars>>

Next == Submit \/ ClickExample \/ Rerun

Spec == Init /\ [][Next]_vars

-----------------------------------------------------------------------------
(* What the parser's contract says, stated on the reply itself             *)

\* A letter and its capital are the same letter; every other character is
\* only equal to itself.
Fold(c) ==
    IF IsLower(c)
    THEN UpperLetters[CHOOSE i \in 1..Len(LowerLetters) : LowerLetters[i] = c]
    ELSE c

\* The marker stands at position p (1-based) of text, in any casing.
MarkerAt(text, marker, p) ==
    /\ p + Len(marker) - 1 <= Len(text)
    /\ \A k \in 1..Len(marker) : Fold(text[p + k - 1]) = marker[k]

MarkerPositions(text, marker) == { p \in 1..Len(text) : MarkerAt(text, marker, p) }

FirstPosition(text, marker) ==
    CHOOSE p \in MarkerPositions(text, marker) :
        \A q \in MarkerPositions(text, marker) : p <= q

BothPresent(text) ==
    MarkerPositions(text, STORY) # {} /\ MarkerPositions(text, MORAL) # {}

\* The characters of text strictly between positions lo and hi.
Between(text, lo, hi) ==
    IF lo + 1 > hi - 1 THEN <<>> ELSE SubSeq(text, lo + 1, hi - 1)

\* C1: when the trimmed reply holds both markers, the story is the trimmed
\* text between the end of "STORY:" and the start of "MORAL:", the moral is
\* the trimmed text after "MORAL:", and neither holds a marker delimiting it.
C1_MarkerSections ==
    LET text == Strip(content)
    IN  (parsed # NoResult /\ BothPresent(text)) =>
            LET s == FirstPosition(text, STORY)
                m == FirstPosition(text, MORAL)
            IN  /\ parsed.story = Strip(Between(text, s + Len(STORY) - 1, m))
                /\ parsed.moral =
                       Strip(Between(text, m + Len(MORAL) - 1, Len(text) + 1))
                /\ MarkerPositions(parsed.story, STORY) = {}
                /\ MarkerPositions(parsed.story, MORAL) = {}
                /\ MarkerPositions(parsed.moral, MORAL) = {}

\* The reply's non-empty trimmed lines, read off character by character.
FlushLine(cur, acc) == IF Strip(cur) = <<>> THEN acc ELSE Append(acc, Strip(cur))

RECURSIVE ScanLines(_, _, _)
ScanLines(s, cur, acc) ==
    IF s = <<>> THEN FlushLine(cur, acc)
    ELSE IF Head(s) = "\n" THEN ScanLines(Tail(s), <<>>, FlushLine(cur, acc))
    ELSE ScanLines(Tail(s), Append(cur, Head(s)), acc)

RECURSIVE JoinAll(_, _)
JoinAll(ls, n) ==
    IF n = 0 THEN <<>>
    ELSE IF n = 1 THEN ls[1]
    ELSE JoinAll(ls, n - 1) \o <<"\n">> \o ls[n]

FallbackRule(text) ==
    LET L == ScanLines(text, <<>>, <<>>)
    IN  IF Len(L) >= 2
        THEN [story |-> JoinAll(L, Len(L) - 1), moral |-> L[Len(L)]]
        ELSE [story |-> text, moral |-> <<>>]

\* A marker is missing when the upper-cased reply does not hold it.
Nowhere(up, pat) == \A i \in 0..Len(up) : ~OccursAt(up, pat, i)

MarkerMissing(text) == Nowhere(Upper(text), STORY) \/ Nowhere(Upper(text), MORAL)

InMarker(text, i) ==
    \E marker \in {STORY, MORAL} :
        \E p \in (i - Len(marker) + 1)..i : p >= 1 /\ MarkerAt(text, marker, p)

CapitalMarkers(text) ==
    [i \in 1..Len(text) |-> IF InMarker(text, i) THEN Fold(text[i]) ELSE text[i]]

\* C3 as stated: a reply parses to exactly the same pair as the reply with
\* its markers written in capitals.
C3_SamePair ==
    parsed # NoResult => parsed = ParseReply(CapitalMarkers(content))

\* t is s with some of its letters capitalised.
Capitalised(s, t) ==
    /\ Len(s) = Len(t)
    /\ \A i \in 1..Len(s) : t[i] = s[i] \/ t[i] = Fold(s[i])

\* C3: a reply takes the same branch as the reply with its markers written
\* in capitals, and the two returned pairs differ at most in the casing of
\* marker letters left in the returned text.
C3_CaseInsensitive ==
    parsed # NoResult =>
        LET q == ParseReply(CapitalMarkers(content))
        IN  /\ HasMarkers(Strip(content))
                  = HasMarkers(Strip(CapitalMarkers(content)))
            /\ Capitalised(parsed.story, q.story)
            /\ Capitalised(parsed.moral, q.moral)

C3_Witness ==
    /\ parsed # NoResult
    /\ CapitalMarkers(content) # content
    /\ BothPresent(content)
    /\ parsed.story = <<"a">>
    /\ parsed.moral = <<"b">>

-----------------------------------------------------------------------------
(* The two helper functions, under SpecFn                                  *)

Called(f) == fnOut.fn = f

\* C4: without a client handle analyze_mood returns "Unknown (no API key)",
\* generate_story_and_moral returns ("(API key missing)", ""), and neither
\* issues a request nor raises.
C4_NoKeySentinels ==
    (fnOut.fn # "" /\ ~fnArgs.client) =>
        /\ fnOut.requests = <<>>
        /\ ~fnOut.raised
        /\ Called("analyze_mood") => fnOut.ret = <<"Unknown (no API key)">>
        /\ Called("generate_story_and_moral") =>
               fnOut.ret = [story |-> <<"(API key missing)">>, moral |-> <<>>]

C4_Witness ==
    /\ Called("generate_story_and_moral")
    /\ ~fnArgs.client
    /\ fnArgs.dream_text = <<"a">>
    /\ fnOut.outcome.kind = "none"
    /\ fnOut.ret.story = <<"(API key missing)">>

UnrecognisedLength ==
    /\ Called("generate_story_and_moral")
    /\ fnArgs.client
    /\ fnArgs.length \notin {"Short", "Medium", "Long"}

\* C6 as stated: an unrecognised length gets the hint of the "Short" tier.
C6_ShortTierHint ==
    UnrecognisedLength =>
        /\ Len(fnOut.requests) = 1
        /\ fnOut.requests[1].user.hint = LengthHint("Short")

\* C6: an unrecognised length gets the hint "Keep it short.", which is the
\* hint of none of the three tiers, and the call raises only when the
\* service does.
C6_DefaultHint ==
    UnrecognisedLength =>
        /\ Len(fnOut.requests) = 1
        /\ fnOut.requests[1].user.hint = "Keep it short."
        /\ \A t \in {"Short", "Medium", "Long"} :
              fnOut.requests[1].user.hint # LengthHint(t)
        /\ fnOut.raised => fnOut.outcome.kind # "reply"

C6_Witness ==
    /\ UnrecognisedLength
    /\ fnArgs.length = "Epic"
    /\ ~fnOut.raised
    /\ fnOut.requests[1].user.hint = "Keep it short."

-----------------------------------------------------------------------------
(* The script run, under Spec                                              *)

Count(events, e) == Cardinality({ i \in 1..Len(events) : events[i] = e })

Has(events, e) == Count(events, e) > 0

\* The position of the first e in events.
First(events, e) ==
    CHOOSE i \in 1..Len(events) :
        events[i] = e /\ \A j \in 1..(i - 1) : events[j] # e

OnlyWhitespace(d) == \A i \in 1..Len(d) : d[i] \in {" ", "\n"}

Downstream ==
    {"analyze_mood", "generate_story_and_moral", "request", "show mood",
     "show story", "show moral", "download_button", "makedirs", "open", "write"}

\* C5: a submission of an empty or whitespace-only dream ends in the warning
\* alone: no helper is invoked, no request is issued, nothing is shown and
\* no file or directory is created or changed.
C5_BlankRejected ==
    [][(run'.trigger = "submit" /\ OnlyWhitespace(dream_input')) =>
          /\ Has(run'.events, "warning: empty dream")
          /\ \A e \in Downstream : ~Has(run'.events, e)
          /\ shown' = NothingShown
          /\ files' = files
          /\ dirExists' = dirExists]_vars

C5_Witness ==
    /\ run.trigger = "submit"
    /\ dream_input = <<" ">>
    /\ Has(run.events, "warning: empty dream")
    /\ client
    /\ DOMAIN files # {}

\* C7: the file of a dream text is named by the hash of that text alone,
\* every submission of the text uses that one name, and after a saved
\* submission the file holds that submission's full_text.
C7_SameFileLastWrite ==
    \A d \in Dreams :
        /\ saved[d].names \subseteq {<<"stories/dream_", Sha1Hex8(d), ".txt">>}
        /\ saved[d].ok =>
              \E n \in saved[d].names : n \in DOMAIN files /\ files[n] = saved[d].text

C7_Witness ==
    /\ saved[<<"a">>].ok
    /\ saved[<<"a">>].overwrote
    /\ saved[<<" ", "a">>].ok
    /\ genre = "Horror"
    /\ dream_input = <<"a">>

ValidSubmission == run.trigger = "submit" /\ ~OnlyWhitespace(dream_input)

\* C8 as stated: a valid submission invokes analyze_mood once and then
\* generate_story_and_moral once, whatever either of them does.
C8_BothAlways ==
    ValidSubmission =>
        /\ Count(run.events, "analyze_mood") = 1
        /\ Count(run.events, "generate_story_and_moral") = 1
        /\ First(run.events, "analyze_mood")
             < First(run.events, "generate_story_and_moral")

\* C8: a valid submission invokes analyze_mood once; when that call raises,
\* generate_story_and_moral is not invoked, and otherwise it is invoked
\* once, after analyze_mood, whether or not it raises in turn.
C8_MoodThenStory ==
    ValidSubmission =>
        /\ Count(run.events, "analyze_mood") = 1
        /\ IF Has(run.events, "exception in analyze_mood")
           THEN Count(run.events, "generate_story_and_moral") = 0
           ELSE /\ Count(run.events, "generate_story_and_moral") = 1
                /\ First(run.events, "analyze_mood")
                     < First(run.events, "generate_story_and_moral")

C8_Witness ==
    /\ ValidSubmission
    /\ Has(run.events, "exception in analyze_mood")
    /\ Count(run.events, "request") = 1

ResultsComputed ==
    /\ ValidSubmission
    /\ Has(run.events, "generate_story_and_moral")
    /\ ~Has(run.events, "exception in analyze_mood")
    /\ ~Has(run.events, "exception in generate_story_and_moral")

\* C9: when the results were computed, the mood, the story, the moral and
\* the download button are rendered before makedirs is attempted; a failed
\* save ends in the warning and the run goes on to the page foot; a
\* successful one leaves the download's content in the file.
C9_SaveFailureNonFatal ==
    ResultsComputed =>
        /\ \A e \in {"show mood", "show story", "show moral", "download_button"} :
              /\ Count(run.events, e) = 1
              /\ First(run.events, e) < First(run.events, "makedirs")
        /\ shown.download # <<>>
        /\ shown.download[2] = dream_input
        /\ shown.download[4] = shown.mood
        /\ shown.download[6] = shown.story
        /\ shown.moral \in {shown.download[8], <<"(No explicit moral generated.)">>}
        /\ Count(run.events, "info: saved")
             + Count(run.events, "warning: could not save") = 1
        /\ Has(run.events, "tips")
        /\ Has(run.events, "info: saved") =>
              \E n \in DOMAIN files : files[n] = shown.download

C9_Witness ==
    /\ ResultsComputed
    /\ Has(run.events, "warning: could not save")
    /\ Has(run.events, "write")
    /\ shown.story = <<"a">>
    /\ shown.moral = <<"b">>
    /\ \E n \in DOMAIN files : files[n] = <<>>

\* C10: once an example button was pressed and the rerun it asks for has
\* run, the dream field holds that button's example text.
C10_ExampleFillsInput ==
    ("__autofill" \in DOMAIN session /\ run.trigger = "rerun") =>
        dream_input = session.__autofill

====
